---- MODULE Spec2Model ----
(***************************************************************************)
(* code2clipboard: the scan / prune / format / assemble / copy pipeline of *)
(* index.mjs together with the ignore-pattern expansion of config.mjs.     *)
(*                                                                         *)
(* Strings that the code takes apart (patterns, file names) are tuples of  *)
(* one-character strings; a path is a tuple of such names, one per         *)
(* segment, absolute from the filesystem root.                             *)
(***************************************************************************)
EXTENDS Integers, Sequences, FiniteSets, TLC

VARIABLES
  argv,                    \* the parsed options (config.mjs:84-156), fixed after start
  EXPANDED_IGNORE,         \* the expanded ignore rules, computed once at load
  pc,                      \* position of main()
  stack,                   \* the active scanDirectory calls, innermost last
  allMatchedFiles,         \* main: result of the top-level scanDirectory
  files,                   \* main: allMatchedFiles.slice(0, MAX_FILES)
  matchedFiles,            \* global: relative paths pushed by formatFileContent
  skippedFiles,            \* global: skip records
  ignoredFilesCount,       \* global
  ignoredDirectoriesCount, \* global
  totalMatchedFilesCount,  \* global
  fileExtensionCounts,     \* global Map extension -> count
  task,                    \* position of each per-file async task of files.map
  formattedContents,       \* the values Promise.all collects, by index
  settled,                 \* how many tasks have fulfilled so far
  rejection,               \* the first rejection seen by Promise.all, or NoError
  clipboardContent,        \* main: the assembled text
  clipboard,               \* the clipboard sink
  console,                 \* what was logged, in order
  error,                   \* the error caught by main's catch, or NoError
  mainPromise,             \* state of the promise returned by main()
  exitCode,                \* process exit code (node: 0 unless set or uncaught)
  run,                     \* which run of the program on this tree and configuration
  previousFiles,           \* the file list the previous run selected
  paths,                   \* buildAndPrintTree: its parameter
  treeString,              \* buildAndPrintTree: the string it returns
  content,                 \* removeExcessLineBreaks: its parameter
  replaced,                \* removeExcessLineBreaks: the string it returns
  patternList,             \* expandDirectoryPatterns: its parameter
  expanded                 \* expandDirectoryPatterns: the list it returns

vars == <<argv, EXPANDED_IGNORE, pc, stack, allMatchedFiles, files, matchedFiles, skippedFiles,
          ignoredFilesCount, ignoredDirectoriesCount, totalMatchedFilesCount,
          fileExtensionCounts, task, formattedContents, settled, rejection,
          clipboardContent, clipboard, console, error, mainPromise, exitCode,
          run, previousFiles, paths, treeString, content, replaced, patternList, expanded>>

----------------------------------------------------------------------------
(* Bounds of the model *)

\* max-depth is drawn from 0..MaxDepthBound
MaxDepthBound == 2

\* max-files is drawn from 1..MaxFilesBound
MaxFilesBound == 2

----------------------------------------------------------------------------
(* Names and patterns, spelled as tuples of characters *)

n_w == <<"w">>
n_a_js == <<"a", ".", "j", "s">>
n_node_modules == <<"n", "o", "d", "e", "_", "m", "o", "d", "u", "l", "e", "s">>
n_x_js == <<"x", ".", "j", "s">>
n_src == <<"s", "r", "c">>
n_index_js == <<"i", "n", "d", "e", "x", ".", "j", "s">>
n_R_md == <<"R", ".", "m", "d">>
n_big_txt == <<"b", "i", "g", ".", "t", "x", "t">>
n_img_png == <<"i", "m", "g", ".", "p", "n", "g">>
n_lib == <<"l", "i", "b">>
n_u_MD == <<"u", ".", "M", "D">>
n_deep == <<"d", "e", "e", "p">>
n_z_md == <<"z", ".", "m", "d">>

p_star_md == <<"*", ".", "m", "d">>
p_star_ib == <<"*", "i", "b">>
p_dist_slash == <<"d", "i", "s", "t", "/">>
p_dot_git == <<".", "g", "i", "t">>
p_a_b_slash == <<"a", ".", "b", "/">>

e_md == <<"m", "d">>
e_dot_md == <<".", "m", "d">>

\* process.cwd()
Cwd == <<n_w>>

\* The directory tree on disk, in the order readdir yields the entries.
FileSystem ==
  << [path |-> <<n_w, n_a_js>>, isDirectory |-> FALSE, size |-> 14, binary |-> FALSE],
     [path |-> <<n_w, n_node_modules>>, isDirectory |-> TRUE, size |-> 0, binary |-> FALSE],
     [path |-> <<n_w, n_node_modules, n_x_js>>, isDirectory |-> FALSE, size |-> 20, binary |-> FALSE],
     [path |-> <<n_w, n_src>>, isDirectory |-> TRUE, size |-> 0, binary |-> FALSE],
     [path |-> <<n_w, n_src, n_index_js>>, isDirectory |-> FALSE, size |-> 14, binary |-> FALSE],
     [path |-> <<n_w, n_src, n_lib>>, isDirectory |-> TRUE, size |-> 0, binary |-> FALSE],
     [path |-> <<n_w, n_src, n_lib, n_u_MD>>, isDirectory |-> FALSE, size |-> 1024, binary |-> FALSE],
     [path |-> <<n_w, n_src, n_lib, n_deep>>, isDirectory |-> TRUE, size |-> 0, binary |-> FALSE],
     [path |-> <<n_w, n_src, n_lib, n_deep, n_z_md>>, isDirectory |-> FALSE, size |-> 30, binary |-> FALSE],
     [path |-> <<n_w, n_src, n_R_md>>, isDirectory |-> FALSE, size |-> 40, binary |-> FALSE],
     [path |-> <<n_w, n_src, n_big_txt>>, isDirectory |-> FALSE, size |-> 1025, binary |-> FALSE],
     [path |-> <<n_w, n_src, n_img_png>>, isDirectory |-> FALSE, size |-> 50, binary |-> TRUE] >>

NoError == [op |-> "none", path |-> <<>>]

----------------------------------------------------------------------------
(* Sequence helpers *)

Min(a, b) == IF a < b THEN a ELSE b

Max(a, b) == IF a > b THEN a ELSE b

Range(s) == {s[i] : i \in DOMAIN s}

RECURSIVE Concat(_)
\* Array.prototype.flat over a tuple of tuples
Concat(ss) == IF ss = <<>> THEN <<>> ELSE Head(ss) \o Concat(Tail(ss))

\* Array.prototype.slice(begin, end) for 0 <= begin, 0 <= end
Slice(s, begin, end) == SubSeq(s, begin + 1, Min(end, Len(s)))

\* Array.prototype.slice(begin)
SliceFrom(s, begin) == SubSeq(s, begin + 1, Len(s))

StartsWith(s, prefix) ==
  Len(s) >= Len(prefix) /\ SubSeq(s, 1, Len(prefix)) = prefix

EndsWith(s, suffix) ==
  Len(s) >= Len(suffix) /\ SubSeq(s, Len(s) - Len(suffix) + 1, Len(s)) = suffix

Includes(s, ch) == \E i \in DOMAIN s : s[i] = ch

\* index of the last occurrence of ch in s, 0 when there is none
LastIndexOf(s, ch) ==
  IF Includes(s, ch) THEN CHOOSE i \in DOMAIN s : s[i] = ch /\ \A j \in DOMAIN s : s[j] = ch => j <= i
  ELSE 0

RECURSIVE SplitAt(_, _, _)
\* String.prototype.split(ch): cur is the piece being collected
SplitAt(s, ch, cur) ==
  IF s = <<>> THEN <<cur>>
  ELSE IF Head(s) = ch THEN <<cur>> \o SplitAt(Tail(s), ch, <<>>)
  ELSE SplitAt(Tail(s), ch, Append(cur, Head(s)))

Split(s, ch) == SplitAt(s, ch, <<>>)

----------------------------------------------------------------------------
(* node:path *)

RECURSIVE CommonPrefixLen(_, _)
CommonPrefixLen(a, b) ==
  IF a = <<>> \/ b = <<>> \/ Head(a) # Head(b) THEN 0
  ELSE 1 + CommonPrefixLen(Tail(a), Tail(b))

DotDot == <<".", ".">>

\* path.relative(from, to) for absolute paths: one ".." per segment of `from`
\* below the common ancestor, then the rest of `to`
PathRelative(from, to) ==
  LET c == CommonPrefixLen(from, to)
  IN [i \in 1..(Len(from) - c) |-> DotDot] \o SubSeq(to, c + 1, Len(to))

\* path.join(dir, name)
PathJoin(dir, name) == Append(dir, name)

\* path.extname(p).slice(1): the text after the last "." of the last segment,
\* empty when there is no "." or the only "." starts the name
ExtName(filePath) ==
  LET base == filePath[Len(filePath)]
      dot == LastIndexOf(base, ".")
  IN IF dot <= 1 THEN <<>> ELSE SubSeq(base, dot + 1, Len(base))

----------------------------------------------------------------------------
(* config.mjs: the ignore list *)

GlobStar == <<"*", "*">>

\* the text "**/"
AnyDepth == <<"*", "*", "/">>

\* the text "/**"
Below == <<"/", "*", "*">>

\* filterIncludedExtensions: drop "*.<ext>" patterns whose <ext> the user included
filterIncludedExtensions(patterns, includedExtensions) ==
  LET keep(pattern) ==
        IF ~StartsWith(pattern, <<"*", ".">>) THEN TRUE
        ELSE SliceFrom(pattern, 2) \notin includedExtensions
  IN SelectSeq(patterns, keep)

\* addIgnoreExtensions: append "**/*.<ext>" for each extension to ignore
addIgnoreExtensions(patterns, extensionsToIgnore) ==
  LET bare(ext) == IF StartsWith(ext, <<".">>) THEN SliceFrom(ext, 1) ELSE ext
  IN patterns \o [i \in DOMAIN extensionsToIgnore |->
                    AnyDepth \o <<"*", ".">> \o bare(extensionsToIgnore[i])]

\* every pattern taken for a file pattern: one rule each
expandDirectoryPatterns_FilesOnly(patterns) ==
  [i \in DOMAIN patterns |-> AnyDepth \o patterns[i]]

\* expandDirectoryPatterns: a directory-like pattern yields two rules, any other one
expandDirectoryPatterns(patterns) ==
  LET rules(pattern) ==
        IF EndsWith(pattern, <<"/">>)
           \/ (~Includes(pattern, ".") /\ ~StartsWith(pattern, <<"*">>))
        THEN <<AnyDepth \o pattern \o Below, AnyDepth \o pattern>>
        ELSE <<AnyDepth \o pattern>>
  IN Concat([i \in DOMAIN patterns |-> rules(patterns[i])])

\* expandIgnorePatterns
expandIgnorePatterns(patterns, ignoreExtensions, userExtensions) ==
  LET filtered1 == IF Cardinality(userExtensions) > 0
                   THEN filterIncludedExtensions(patterns, userExtensions)
                   ELSE patterns
      filtered2 == IF Len(ignoreExtensions) > 0
                   THEN addIgnoreExtensions(filtered1, ignoreExtensions)
                   ELSE filtered1
  IN expandDirectoryPatterns(filtered2)

MAX_FILE_SIZE == argv.maxFilesize * 1024

MAX_FILES == argv.maxFiles

MAX_DEPTH == argv.maxDepth

OMIT_TREE == argv.omitTree

EXTENSIONS == Range(argv.extensions)

IGNORE_FILES ==
  IF Len(argv.addIgnore) = 0 THEN argv.ignore ELSE argv.ignore \o argv.addIgnore

PROJECT_DESCRIPTION == argv.projectDescription

OUTPUT_TO_CONSOLE == argv.outputToConsole

----------------------------------------------------------------------------
(* micromatch.isMatch(path, patterns, { dot: true }) for the patterns the    *)
(* expansion produces: "**" stands for any number of whole segments, "*" for *)
(* any run of characters inside one segment, everything else is literal.     *)

RECURSIVE SegmentMatch(_, _)
SegmentMatch(glob, name) ==
  IF glob = <<>> THEN name = <<>>
  ELSE IF Head(glob) = "*"
       THEN SegmentMatch(Tail(glob), name)
            \/ (name # <<>> /\ SegmentMatch(glob, Tail(name)))
       ELSE name # <<>> /\ Head(name) = Head(glob)
            /\ SegmentMatch(Tail(glob), Tail(name))

RECURSIVE GlobMatch(_, _)
GlobMatch(globSegments, segments) ==
  IF globSegments = <<>> THEN segments = <<>>
  ELSE IF Head(globSegments) = GlobStar
       THEN GlobMatch(Tail(globSegments), segments)
            \/ (segments # <<>> /\ GlobMatch(globSegments, Tail(segments)))
       ELSE segments # <<>> /\ SegmentMatch(Head(globSegments), Head(segments))
            /\ GlobMatch(Tail(globSegments), Tail(segments))

isMatch(relativePath, patterns) ==
  \E i \in DOMAIN patterns : GlobMatch(Split(patterns[i], "/"), relativePath)

----------------------------------------------------------------------------
(* index.mjs: the walk *)

\* matching against the raw patterns instead of the expanded ones
shouldIgnore_Unexpanded(filePath) == isMatch(PathRelative(Cwd, filePath), IGNORE_FILES)

shouldIgnore(filePath) == isMatch(PathRelative(Cwd, filePath), EXPANDED_IGNORE)

\* a disk whose enumeration order changes from one run to the next
Readdir_Unstable(dir) ==
  LET found == SelectSeq(FileSystem,
                         LAMBDA e : Len(e.path) = Len(dir) + 1 /\ StartsWith(e.path, dir))
      order == IF run = 1 THEN found
               ELSE [i \in DOMAIN found |-> found[Len(found) + 1 - i]]
  IN [i \in DOMAIN order |->
        [name |-> order[i].path[Len(order[i].path)], isDirectory |-> order[i].isDirectory]]

\* fs.readdir(dir, { withFileTypes: true }): the entries of dir, in disk order
Readdir(dir) ==
  LET found == SelectSeq(FileSystem,
                         LAMBDA e : Len(e.path) = Len(dir) + 1 /\ StartsWith(e.path, dir))
  IN [i \in DOMAIN found |->
        [name |-> found[i].path[Len(found[i].path)], isDirectory |-> found[i].isDirectory]]

Stat(filePath) == CHOOSE e \in Range(FileSystem) : e.path = filePath

\* isBinaryFile: !isText(filePath, buffer)
isBinaryFile(filePath) == Stat(filePath).binary

\* a size test that turns away a file of exactly the ceiling
isAllowedFile_StrictSize(filePath) ==
  LET size == Stat(filePath).size
      extension == ExtName(filePath)
  IN IF isBinaryFile(filePath) THEN FALSE
     ELSE size < MAX_FILE_SIZE
          /\ (extension \in EXTENSIONS \/ Cardinality(EXTENSIONS) = 0)

\* the value isAllowedFile returns
isAllowedFile(filePath) ==
  LET size == Stat(filePath).size
      extension == ExtName(filePath)
  IN IF isBinaryFile(filePath) THEN FALSE
     ELSE size <= MAX_FILE_SIZE
          /\ (extension \in EXTENSIONS \/ Cardinality(EXTENSIONS) = 0)

\* a counter that is set to 1 whenever its extension is met
CountExtension_Set(counts, extension) ==
  [e \in DOMAIN counts \cup {extension} |-> IF e = extension THEN 1 ELSE counts[e]]

\* fileExtensionCounts.set(extension, (fileExtensionCounts.get(extension) || 0) + 1)
CountExtension(counts, extension) ==
  [e \in DOMAIN counts \cup {extension} |->
     IF e = extension
     THEN (IF e \in DOMAIN counts THEN counts[e] ELSE 0) + 1
     ELSE counts[e]]

\* a depth check that already stops at MAX_DEPTH itself
DepthExceeded_Inclusive(depth) == depth >= MAX_DEPTH

\* a depth check that lets one level too many through
DepthExceeded_OffByOne(depth) == depth > MAX_DEPTH + 1

\* scanDirectory line 45: the recursion stops below MAX_DEPTH
DepthExceeded(depth) == depth > MAX_DEPTH

\* every ignored entry recorded as a directory
IgnoredReason_Directory(entry) == "Ignored Directory"

\* a reason that does not tell directories from files
IgnoredReason_Same(entry) == "Ignored"

\* scanDirectory lines 53-59: the reason recorded for an ignored entry
IgnoredReason(entry) == IF entry.isDirectory THEN "Ignored Directory" ELSE "Ignored"

Frame(dir, depth) ==
  [dir |-> dir, depth |-> depth, listed |-> FALSE, entries |-> <<>>, index |-> 1,
   files |-> <<>>]

Top == stack[Len(stack)]

SetTop(frame) == [stack EXCEPT ![Len(stack)] = frame]

\* the entry the innermost loop is at, and its path.join(dir, entry.name)
Entry == Top.entries[Top.index]

FullPath == PathJoin(Top.dir, Entry.name)

SkipRecord(filePath, reason) == [path |-> filePath, reason |-> reason]

Log(stream, msg) == [stream |-> stream, msg |-> msg]

\* no pruning at all
PrunedFiles_Unlimited(all) == all

\* main line 337
PrunedFiles(all) == Slice(all, 0, MAX_FILES)

\* the first file beyond the limit is forgotten
SkippedDueToLimit_OffByOne(all) ==
  IF Len(all) > MAX_FILES
  THEN LET rest == SliceFrom(all, MAX_FILES + 1)
       IN [i \in DOMAIN rest |-> [path |-> rest[i], reason |-> "Exceeded max files limit"]]
  ELSE <<>>

\* over the limit, every matched file is recorded, the selected ones included
SkippedDueToLimit_All(all) ==
  IF Len(all) > MAX_FILES
  THEN [i \in DOMAIN all |-> [path |-> all[i], reason |-> "Exceeded max files limit"]]
  ELSE <<>>

\* main lines 338-341: the records pushed for the files beyond MAX_FILES
SkippedDueToLimit(all) ==
  IF Len(all) > MAX_FILES
  THEN LET rest == SliceFrom(all, MAX_FILES)
       IN [i \in DOMAIN rest |-> SkipRecord(rest[i], "Exceeded max files limit")]
  ELSE <<>>

----------------------------------------------------------------------------
(* The state after module load, before main() runs *)

IgnoreChoices == {<<>>, <<n_node_modules>>, <<p_star_ib, n_img_png>>}

AddIgnoreChoices == {<<>>, <<p_star_md>>}

ExtensionChoices == {<<>>, <<e_md>>}

ExtensionIgnoreChoices == {<<>>, <<e_dot_md>>}

DirectoryChoices == {Cwd, <<n_w, n_src>>}

\* the options of the report: the defaults, or all of them set
ReportChoices ==
  {[omitTree |-> FALSE, projectDescription |-> "", outputToConsole |-> FALSE],
   [omitTree |-> TRUE, projectDescription |-> "a tool", outputToConsole |-> TRUE]}

\* the globals of lines 20-26 and what main and its tasks hold, before main runs
Loaded ==
  /\ EXPANDED_IGNORE = expandIgnorePatterns(IGNORE_FILES, argv.extensionsIgnore, EXTENSIONS)
  /\ stack = <<>>
  /\ allMatchedFiles = <<>>
  /\ files = <<>>
  /\ matchedFiles = <<>>
  /\ skippedFiles = <<>>
  /\ ignoredFilesCount = 0
  /\ ignoredDirectoriesCount = 0
  /\ totalMatchedFilesCount = 0
  /\ fileExtensionCounts = <<>>
  /\ task = <<>>
  /\ formattedContents = <<>>
  /\ settled = 0
  /\ rejection = NoError
  /\ clipboardContent = <<>>
  /\ clipboard = <<>>
  /\ console = <<>>
  /\ error = NoError
  /\ mainPromise = "pending"
  /\ exitCode = -1
  /\ run = 1
  /\ previousFiles = <<>>

\* no function is being called on its own
NoCall ==
  /\ paths = <<>>
  /\ treeString = <<>>
  /\ content = <<>>
  /\ replaced = <<>>
  /\ patternList = <<>>
  /\ expanded = <<>>

Init ==
  /\ \E scan \in [maxDepth : 0..MaxDepthBound,
                   maxFiles : 1..MaxFilesBound,
                   maxFilesize : {1},
                   ignore : IgnoreChoices,
                   addIgnore : AddIgnoreChoices,
                   extensions : ExtensionChoices,
                   extensionsIgnore : ExtensionIgnoreChoices,
                   directory : DirectoryChoices],
        report \in ReportChoices :
       argv = [maxDepth |-> scan.maxDepth,
               maxFiles |-> scan.maxFiles,
               maxFilesize |-> scan.maxFilesize,
               ignore |-> scan.ignore,
               addIgnore |-> scan.addIgnore,
               extensions |-> scan.extensions,
               extensionsIgnore |-> scan.extensionsIgnore,
               directory |-> scan.directory,
               omitTree |-> report.omitTree,
               projectDescription |-> report.projectDescription,
               outputToConsole |-> report.outputToConsole]
  /\ Loaded
  /\ pc = "start"
  /\ NoCall

\* what a run of main leaves alone: the earlier run, and the functions called alone
rerunVars == <<run, previousFiles>>

callVars == <<paths, treeString, content, replaced, patternList, expanded>>

mainVars == <<allMatchedFiles, files, totalMatchedFilesCount>>

walkVars == <<skippedFiles, ignoredFilesCount, ignoredDirectoriesCount, fileExtensionCounts>>

taskVars == <<task, formattedContents, settled, rejection, matchedFiles>>

sinkVars == <<clipboardContent, clipboard>>

endVars == <<mainPromise, exitCode>>

\* an exception reaches main's catch (line 389); the scan in progress is abandoned
Throw(e) ==
  /\ error' = e
  /\ pc' = "catch"
  /\ stack' = <<>>

----------------------------------------------------------------------------
(* main, lines 331-333: log the configuration, call scanDirectory(targetDir) *)

Start ==
  /\ pc = "start"
  /\ console' = Append(console, Log("log", "Configuration"))
  /\ stack' = <<Frame(argv.directory, 0)>>
  /\ pc' = "scan"
  /\ UNCHANGED <<rerunVars, callVars, argv, EXPANDED_IGNORE, mainVars, walkVars, taskVars, sinkVars, error, endVars>>

(* scanDirectory returns `result` to its caller: the enclosing loop appends it *)
(* to its files (line 64), main stores it (lines 333-334)                      *)
Return(result) ==
  IF Len(stack) > 1
  THEN LET caller == stack[Len(stack) - 1]
       IN /\ stack' = SubSeq(stack, 1, Len(stack) - 2)
                       \o <<[caller EXCEPT !.files = @ \o result, !.index = @ + 1]>>
          /\ UNCHANGED <<pc, mainVars>>
  ELSE /\ stack' = <<>>
       /\ allMatchedFiles' = result
       /\ totalMatchedFilesCount' = Len(result)
       /\ pc' = "prune"
       /\ UNCHANGED files

(* scanDirectory lines 45-48: the depth check, then readdir *)
ScanEnter ==
  /\ pc = "scan"
  /\ stack # <<>>
  /\ ~Top.listed
  /\ IF DepthExceeded(Top.depth)
     THEN Return(<<>>) /\ UNCHANGED error
     ELSE \E ok \in BOOLEAN :
            IF ok
            THEN /\ stack' = SetTop([Top EXCEPT !.listed = TRUE, !.entries = Readdir(Top.dir)])
                 /\ UNCHANGED <<pc, mainVars, error>>
            ELSE Throw([op |-> "readdir", path |-> Top.dir]) /\ UNCHANGED mainVars
  /\ UNCHANGED <<rerunVars, callVars, argv, EXPANDED_IGNORE, walkVars, taskVars, sinkVars, console, endVars>>

InLoop ==
  /\ pc = "scan"
  /\ stack # <<>>
  /\ Top.listed
  /\ Top.index <= Len(Top.entries)

(* scanDirectory lines 52-61: an ignored entry is counted and recorded *)
ScanIgnored ==
  /\ InLoop
  /\ shouldIgnore(FullPath)
  /\ IF Entry.isDirectory
     THEN /\ ignoredDirectoriesCount' = ignoredDirectoriesCount + 1
          /\ UNCHANGED ignoredFilesCount
     ELSE /\ ignoredFilesCount' = ignoredFilesCount + 1
          /\ UNCHANGED ignoredDirectoriesCount
  /\ skippedFiles' = Append(skippedFiles, SkipRecord(FullPath, IgnoredReason(Entry)))
  /\ stack' = SetTop([Top EXCEPT !.index = @ + 1])
  /\ UNCHANGED <<rerunVars, callVars, argv, EXPANDED_IGNORE, pc, mainVars, fileExtensionCounts, taskVars, sinkVars, console,
                 error, endVars>>

(* scanDirectory lines 63-64: recurse into a directory *)
ScanSubdirectory ==
  /\ InLoop
  /\ ~shouldIgnore(FullPath)
  /\ Entry.isDirectory
  /\ stack' = Append(stack, Frame(FullPath, Top.depth + 1))
  /\ UNCHANGED <<rerunVars, callVars, argv, EXPANDED_IGNORE, pc, mainVars, walkVars, taskVars, sinkVars, console, error, endVars>>

(* scanDirectory lines 65-69 with isAllowedFile and isBinaryFile (81-104):   *)
(* stat, then readFile, either of which may throw; then accept or record     *)
ScanFile ==
  /\ InLoop
  /\ ~shouldIgnore(FullPath)
  /\ ~Entry.isDirectory
  /\ \E io \in {"ok", "stat", "readFile"} :
       IF io # "ok"
       THEN Throw([op |-> io, path |-> FullPath]) /\ UNCHANGED walkVars
       ELSE /\ IF isAllowedFile(FullPath)
               THEN /\ fileExtensionCounts' = CountExtension(fileExtensionCounts, ExtName(FullPath))
                    /\ stack' = SetTop([Top EXCEPT !.files = Append(@, FullPath), !.index = @ + 1])
                    /\ UNCHANGED skippedFiles
               ELSE /\ skippedFiles' = Append(skippedFiles,
                                              SkipRecord(FullPath, "Not allowed (size or binary)"))
                    /\ stack' = SetTop([Top EXCEPT !.index = @ + 1])
                    /\ UNCHANGED fileExtensionCounts
            /\ UNCHANGED <<pc, error, ignoredFilesCount, ignoredDirectoriesCount>>
  /\ UNCHANGED <<rerunVars, callVars, argv, EXPANDED_IGNORE, mainVars, taskVars, sinkVars, console, endVars>>

(* scanDirectory line 72: the loop is over, return files *)
ScanReturn ==
  /\ pc = "scan"
  /\ stack # <<>>
  /\ Top.listed
  /\ Top.index > Len(Top.entries)
  /\ Return(Top.files)
  /\ UNCHANGED <<rerunVars, callVars, argv, EXPANDED_IGNORE, walkVars, taskVars, sinkVars, console, error, endVars>>

----------------------------------------------------------------------------
(* main lines 336-351: prune, start one async task per file, await them all *)

UpperCaseLetters ==
  <<"A", "B", "C", "D", "E", "F", "G", "H", "I", "J", "K", "L", "M",
    "N", "O", "P", "Q", "R", "S", "T", "U", "V", "W", "X", "Y", "Z">>

LowerCaseLetters ==
  <<"a", "b", "c", "d", "e", "f", "g", "h", "i", "j", "k", "l", "m",
    "n", "o", "p", "q", "r", "s", "t", "u", "v", "w", "x", "y", "z">>

\* String.prototype.toLowerCase
toLowerCase(text) ==
  [i \in DOMAIN text |->
     IF text[i] \in Range(UpperCaseLetters)
     THEN LowerCaseLetters[CHOOSE k \in DOMAIN UpperCaseLetters : UpperCaseLetters[k] = text[i]]
     ELSE text[i]]

\* fileExtensionUtils.mjs, getMarkdownCodeBlockType: the entries of the map for
\* the extensions of the tree; any other extension is 'plaintext'
getMarkdownCodeBlockType(extension) ==
  LET lower == toLowerCase(extension)
  IN CASE lower = <<"j", "s">> -> "javascript"
       [] lower = <<"m", "d">> -> "markdown"
       [] lower = <<"m", "a", "r", "k", "d", "o", "w", "n">> -> "markdown"
       [] lower = <<"j", "s", "o", "n">> -> "json"
       [] lower = <<"t", "x", "t">> -> "plaintext"
       [] OTHER -> "plaintext"

\* '`'.repeat(10), line 266
FenceLength == 10

\* fs.readFile(filePath, 'utf8'): the text of the file
Content(filePath) == [of |-> filePath]

\* the parts of a wrapped body: the opening line (a fence of `fence` backticks
\* followed by `open`, or `open` alone when fence = 0), the trimmed content,
\* the closing line (the fence again, or `close`), and the path the markers name
CodeBlock(fence, open, body, close, named) ==
  [fence |-> fence, open |-> open, body |-> [trimmed |-> body], close |-> close,
   named |-> named]

\* every body fenced, markdown included
makeCodeBlock_AlwaysFence(body, language) == CodeBlock(FenceLength, language, body, "", <<>>)

\* makeCodeBlock, lines 257-268
makeCodeBlock(body, language) ==
  IF language = "markdown"
  THEN CodeBlock(0, "<!-- Start of Markdown file content -->", body,
                 "<!-- End of Markdown file content -->", <<>>)
  ELSE CodeBlock(FenceLength, language, body, "", <<>>)

\* formatFileContent's value for one file: the heading names the relative path,
\* the body is wrapped according to the extension's code block type
FormattedContent(filePath) ==
  LET extension == toLowerCase(ExtName(filePath))
      codeBlockType == getMarkdownCodeBlockType(extension)
  IN [relativePath |-> PathRelative(Cwd, filePath),
      codeBlock |-> makeCodeBlock(Content(filePath), codeBlockType)]

Pending ==
  [formattedContent |->
     [relativePath |-> <<>>, codeBlock |-> CodeBlock(0, "", Content(<<>>), "", <<>>)],
   size |-> -1]

Prune ==
  /\ pc = "prune"
  /\ files' = PrunedFiles(allMatchedFiles)
  /\ skippedFiles' = skippedFiles \o SkippedDueToLimit(allMatchedFiles)
  /\ task' = [i \in DOMAIN files' |-> "readFile"]
  /\ formattedContents' = [i \in DOMAIN files' |-> Pending]
  /\ pc' = "await"
  /\ UNCHANGED <<rerunVars, callVars, argv, EXPANDED_IGNORE, stack, allMatchedFiles, totalMatchedFilesCount, ignoredFilesCount,
                 ignoredDirectoriesCount, fileExtensionCounts, settled, rejection,
                 matchedFiles, sinkVars, console, error, endVars>>

\* values kept in the order the tasks complete
PromiseAllStore_CompletionOrder(values, index, count, value) ==
  [values EXCEPT ![count + 1] = value]

\* Promise.all keeps each fulfilled value at the index of its promise; count is
\* the number of values already in
PromiseAllStore(values, index, count, value) == [values EXCEPT ![index] = value]

\* Promise.allSettled instead: waits for every task, never rejects
PromiseAllState_AllSettled ==
  IF \A i \in DOMAIN task : task[i] \in {"fulfilled", "rejected"} THEN "fulfilled"
  ELSE "pending"

\* a Promise.all that never settles when it is given no promise at all
PromiseAllState_NeverWhenEmpty ==
  IF rejection # NoError THEN "rejected"
  ELSE IF settled = Len(files) /\ Len(files) > 0 THEN "fulfilled"
  ELSE "pending"

\* Promise.all: rejected by the first rejection, fulfilled once every value is in
PromiseAllState ==
  IF rejection # NoError THEN "rejected"
  ELSE IF settled = Len(files) THEN "fulfilled"
  ELSE "pending"

Reject(i, e) ==
  /\ task' = [task EXCEPT ![i] = "rejected"]
  /\ rejection' = IF rejection = NoError THEN e ELSE rejection
  /\ UNCHANGED <<formattedContents, settled, matchedFiles>>

(* line 344: the task's own readFile completes *)
TaskReadFile(i) ==
  /\ task[i] = "readFile"
  /\ \E ok \in BOOLEAN :
       IF ok
       THEN /\ task' = [task EXCEPT ![i] = "stat"]
            /\ UNCHANGED <<formattedContents, settled, rejection, matchedFiles>>
       ELSE Reject(i, [op |-> "readFile", path |-> files[i]])
  /\ UNCHANGED <<rerunVars, callVars, argv, EXPANDED_IGNORE, pc, stack, mainVars, walkVars, sinkVars, console, error, endVars>>

\* a task that pushes its path both before and after the stat
TaskStat_PushTwice(i) ==
  /\ task[i] = "stat"
  /\ \E ok \in BOOLEAN :
       IF ok
       THEN /\ task' = [task EXCEPT ![i] = "format"]
            /\ matchedFiles' = matchedFiles \o <<PathRelative(Cwd, files[i]),
                                                  PathRelative(Cwd, files[i])>>
            /\ UNCHANGED <<formattedContents, settled, rejection>>
       ELSE Reject(i, [op |-> "stat", path |-> files[i]])
  /\ UNCHANGED <<rerunVars, callVars, argv, EXPANDED_IGNORE, pc, stack, mainVars, walkVars, sinkVars, console, error, endVars>>

(* formatFileContent lines 113-115: stat completes, the relative path is pushed *)
TaskStat(i) ==
  /\ task[i] = "stat"
  /\ \E ok \in BOOLEAN :
       IF ok
       THEN /\ task' = [task EXCEPT ![i] = "format"]
            /\ matchedFiles' = Append(matchedFiles, PathRelative(Cwd, files[i]))
            /\ UNCHANGED <<formattedContents, settled, rejection>>
       ELSE Reject(i, [op |-> "stat", path |-> files[i]])
  /\ UNCHANGED <<rerunVars, callVars, argv, EXPANDED_IGNORE, pc, stack, mainVars, walkVars, sinkVars, console, error, endVars>>

(* formatFileContent lines 116-129 and main lines 345-348: the second readFile *)
(* completes, the block is built and the task fulfils                          *)
TaskFormat(i) ==
  /\ task[i] = "format"
  /\ \E ok \in BOOLEAN :
       IF ok
       THEN /\ task' = [task EXCEPT ![i] = "fulfilled"]
            /\ formattedContents' =
                 PromiseAllStore(formattedContents, i, settled,
                                 [formattedContent |-> FormattedContent(files[i]),
                                  size |-> Stat(files[i]).size])
            /\ settled' = settled + 1
            /\ UNCHANGED <<rejection, matchedFiles>>
       ELSE Reject(i, [op |-> "readFile", path |-> files[i]])
  /\ UNCHANGED <<rerunVars, callVars, argv, EXPANDED_IGNORE, pc, stack, mainVars, walkVars, sinkVars, console, error, endVars>>

(* line 351: main resumes when Promise.all settles *)
AwaitAll ==
  /\ pc = "await"
  /\ PromiseAllState # "pending"
  /\ IF PromiseAllState = "rejected"
     THEN Throw(rejection)
     ELSE pc' = "assemble" /\ UNCHANGED <<stack, error>>
  /\ UNCHANGED <<rerunVars, callVars, argv, EXPANDED_IGNORE, mainVars, walkVars, taskVars, sinkVars, console, endVars>>

----------------------------------------------------------------------------
(* buildAndPrintTree, lines 137-169. The nested object is kept as the list of *)
(* its properties at every level, in creation order: a property is named by   *)
(* the segments that lead to it and holds null (a file) or an object.         *)

n_constructor == <<"c", "o", "n", "s", "t", "r", "u", "c", "t", "o", "r">>

\* names every plain object inherits from Object.prototype, so that
\* current[segment] is truthy on an object that has no such property of its own
ObjectPrototypeKeys == {n_constructor}

Digits == <<"0", "1", "2", "3", "4", "5", "6", "7", "8", "9">>

\* a property name that is a canonical array index: Object.entries lists these
\* first, in ascending numeric order, whatever the creation order
IsArrayIndex(name) ==
  /\ name # <<>>
  /\ \A i \in DOMAIN name : name[i] \in Range(Digits)
  /\ (Len(name) = 1 \/ name[1] # "0")

RECURSIVE NumericValue(_)
NumericValue(name) ==
  IF name = <<>> THEN 0
  ELSE 10 * NumericValue(SubSeq(name, 1, Len(name) - 1))
       + (CHOOSE d \in 0..9 : Digits[d + 1] = name[Len(name)])

\* path segments joined by "/", as path.relative spells a path
RECURSIVE JoinPath(_)
JoinPath(segments) ==
  IF segments = <<>> THEN <<>>
  ELSE IF Len(segments) = 1 THEN segments[1]
  ELSE segments[1] \o <<"/">> \o JoinPath(Tail(segments))

TreeNode(at, value) == [path |-> at, value |-> value]

HasOwn(tree, at) == \E i \in DOMAIN tree : tree[i].path = at

ValueAt(tree, at) == tree[CHOOSE i \in DOMAIN tree : tree[i].path = at].value

\* current[segment] = value: a new property goes last, an existing one keeps its place
SetProperty(tree, at, value) ==
  IF HasOwn(tree, at)
  THEN [i \in DOMAIN tree |-> IF tree[i].path = at THEN TreeNode(at, value) ELSE tree[i]]
  ELSE Append(tree, TreeNode(at, value))

(* lines 144-149, the inner forEach from segment `index` on; current is the   *)
(* object reached so far. A path comes from a file on disk, so current is     *)
(* never the null of another file. An inherited name is truthy: nothing is    *)
(* assigned, current becomes the inherited function, and the rest of the path *)
(* is set on that function, outside the tree.                                 *)
RECURSIVE InsertSegments(_, _, _, _)
InsertSegments(tree, current, segments, index) ==
  IF index > Len(segments) THEN tree
  ELSE LET segment == segments[index]
           here == Append(current, segment)
           fresh == IF index = Len(segments) THEN "null" ELSE "object"
       IN IF HasOwn(tree, here)
          THEN IF ValueAt(tree, here) = "null"
               THEN InsertSegments(SetProperty(tree, here, fresh), here, segments, index + 1)
               ELSE InsertSegments(tree, here, segments, index + 1)
          ELSE IF segment \in ObjectPrototypeKeys
               THEN tree
               ELSE InsertSegments(SetProperty(tree, here, fresh), here, segments, index + 1)

\* lines 141-150: the outer forEach
RECURSIVE BuildTree(_, _)
BuildTree(tree, pathList) ==
  IF pathList = <<>> THEN tree
  ELSE BuildTree(InsertSegments(tree, <<>>, Split(Head(pathList), "/"), 1), Tail(pathList))

RECURSIVE SortByIndex(_)
SortByIndex(nodes) ==
  IF nodes = <<>> THEN <<>>
  ELSE LET key(n) == NumericValue(n.path[Len(n.path)])
           least == CHOOSE i \in DOMAIN nodes : \A j \in DOMAIN nodes : key(nodes[i]) <= key(nodes[j])
       IN <<nodes[least]>>
          \o SortByIndex(SubSeq(nodes, 1, least - 1) \o SubSeq(nodes, least + 1, Len(nodes)))

\* Object.entries(node): array-index names in numeric order, then the others
\* in creation order
ObjectEntries(tree, node) ==
  LET own == SelectSeq(tree, LAMBDA n : Len(n.path) = Len(node) + 1 /\ StartsWith(n.path, node))
      isIndex(n) == IsArrayIndex(n.path[Len(n.path)])
  IN SortByIndex(SelectSeq(own, isIndex)) \o SelectSeq(own, LAMBDA n : ~isIndex(n))

\* the box-drawing texts of lines 158-159, spelled in ASCII: the corner and the
\* tee connector, the blank and the bar indentation
CornerConnector == "+-- "

TeeConnector == "|-- "

BlankIndent == "    "

BarIndent == "|   "

TreeLine(prefix, connector, key) == [prefix |-> prefix, connector |-> connector, key |-> key]

\* buildTreeString, lines 153-166: the lines of the string, each the prefix (one
\* indentation per level), the connector and the key
RECURSIVE buildTreeString(_, _, _)
buildTreeString(tree, node, prefix) ==
  LET entries == ObjectEntries(tree, node)
      lines(index) ==
        LET isLast == index = Len(entries)
            connector == IF isLast THEN CornerConnector ELSE TeeConnector
            newPrefix == Append(prefix, IF isLast THEN BlankIndent ELSE BarIndent)
            key == entries[index].path[Len(entries[index].path)]
        IN <<TreeLine(prefix, connector, key)>>
           \o (IF entries[index].value = "object"
               THEN buildTreeString(tree, entries[index].path, newPrefix)
               ELSE <<>>)
  IN Concat([index \in DOMAIN entries |-> lines(index)])

buildAndPrintTree(pathList) == buildTreeString(BuildTree(<<>>, pathList), <<>>, <<>>)

----------------------------------------------------------------------------
(* removeExcessLineBreaks, lines 189-191:                                     *)
(* content.replace(/\n\s*\n\s*\n/g, '\n\n'), a text being a tuple of          *)
(* characters                                                                 *)

NewLine == "\n"

\* the characters \s matches, among those the texts are made of
Whitespace == {NewLine, " "}

\* a pattern of two line breaks only, /\n\s*\n/
MatchEnd_TwoBreaks(text, i) ==
  IF text[i] # NewLine THEN 0
  ELSE LET ends == {k \in (i + 1)..Len(text) :
                      /\ text[k] = NewLine
                      /\ \A m \in (i + 1)..k : text[m] \in Whitespace}
       IN IF ends = {} THEN 0 ELSE CHOOSE k \in ends : \A other \in ends : k >= other

\* a match that stops at the first third line break it finds (lazy \s*?)
MatchEnd_Lazy(text, i) ==
  IF text[i] # NewLine THEN 0
  ELSE LET ends == {k \in (i + 2)..Len(text) :
                      /\ text[k] = NewLine
                      /\ \A m \in (i + 1)..k : text[m] \in Whitespace
                      /\ \E j \in (i + 1)..(k - 1) : text[j] = NewLine}
       IN IF ends = {} THEN 0 ELSE CHOOSE k \in ends : \A other \in ends : k <= other

\* where the match of /\n\s*\n\s*\n/ that starts at i ends, 0 when there is
\* none: a line break at i, at j and at k with only whitespace between; both
\* \s* are greedy, so the matcher settles on the largest j and then the
\* largest k
MatchEnd(text, i) ==
  IF text[i] # NewLine THEN 0
  ELSE LET matches == {jk \in ((i + 1)..Len(text)) \X ((i + 2)..Len(text)) :
                         /\ jk[1] < jk[2]
                         /\ text[jk[1]] = NewLine
                         /\ text[jk[2]] = NewLine
                         /\ \A m \in (i + 1)..jk[2] : text[m] \in Whitespace}
       IN IF matches = {} THEN 0
          ELSE LET first == CHOOSE jk \in matches :
                              \A other \in matches :
                                \/ other[1] < jk[1]
                                \/ (other[1] = jk[1] /\ other[2] <= jk[2])
               IN first[2]

\* the g flag: matches are replaced left to right, the search resuming after
\* each match
RECURSIVE ReplaceFrom(_, _)
ReplaceFrom(text, i) ==
  IF i > Len(text) THEN <<>>
  ELSE IF MatchEnd(text, i) > 0
       THEN <<NewLine, NewLine>> \o ReplaceFrom(text, MatchEnd(text, i) + 1)
       ELSE <<text[i]>> \o ReplaceFrom(text, i + 1)

removeExcessLineBreaks(text) == ReplaceFrom(text, 1)

----------------------------------------------------------------------------
(* main lines 352-378: the final text, as its sections in order *)

MAX_DISPLAY == 20

Section(name, items, count) == [section |-> name, items |-> items, count |-> count]

\* line 312: "- <relativePath> (<reason>)"
SkippedLine(relativePath, reason) == [path |-> relativePath, reason |-> reason, more |-> 0]

\* line 320: "... and <remainingCount> more file(s) not shown."
MoreLine(remainingCount) == [path |-> <<>>, reason |-> "", more |-> remainingCount]

\* a listing that never says how many records it left out
formatSkippedFiles_NoCount ==
  IF Len(skippedFiles) = 0 THEN <<>>
  ELSE LET shown == Slice(skippedFiles, 0, MAX_DISPLAY)
       IN <<Section("Omitted Files",
                    [i \in DOMAIN shown |->
                       SkippedLine(PathRelative(Cwd, shown[i].path), shown[i].reason)],
                    0)>>

\* formatSkippedFiles: nothing without records; else the heading, one line for
\* each of the first MAX_DISPLAY records, and the count line when there are more
formatSkippedFiles ==
  IF Len(skippedFiles) = 0 THEN <<>>
  ELSE LET shown == Slice(skippedFiles, 0, MAX_DISPLAY)
           skippedFilesList ==
             [i \in DOMAIN shown |->
                SkippedLine(PathRelative(Cwd, shown[i].path), shown[i].reason)]
       IN <<Section("Omitted Files",
                    IF Len(skippedFiles) > MAX_DISPLAY
                    THEN Append(skippedFilesList, MoreLine(Len(skippedFiles) - MAX_DISPLAY))
                    ELSE skippedFilesList,
                    0)>>

\* a header that puts the tree before the summary
Header_TreeFirst ==
  (IF PROJECT_DESCRIPTION # "" THEN <<Section("Project Description", <<>>, 0)>> ELSE <<>>)
  \o (IF ~OMIT_TREE THEN <<Section("Tree Structure", matchedFiles, 0)>> ELSE <<>>)
  \o <<Section("Project Summary", matchedFiles, Len(matchedFiles))>>
  \o formatSkippedFiles

\* the header of lines 357-372
Header ==
  (IF PROJECT_DESCRIPTION # "" THEN <<Section("Project Description", <<>>, 0)>> ELSE <<>>)
  \o <<Section("Project Summary", matchedFiles, Len(matchedFiles))>>
  \o (IF ~OMIT_TREE THEN <<Section("Tree Structure", matchedFiles, 0)>> ELSE <<>>)
  \o formatSkippedFiles

\* lines 352-353: the heading, then the blocks in the order of formattedContents
FilesSection ==
  <<Section("Files", <<>>, 0)>>
  \o [i \in DOMAIN formattedContents |->
        Section("File", <<formattedContents[i].formattedContent.relativePath>>,
                formattedContents[i].size)]

Assemble ==
  /\ pc = "assemble"
  /\ clipboardContent' = Header \o FilesSection
  /\ pc' = "echo"
  /\ UNCHANGED <<rerunVars, callVars, argv, EXPANDED_IGNORE, stack, mainVars, walkVars, taskVars, clipboard, console, error, endVars>>

\* the console taking the place of the clipboard: after the echo main goes
\* straight to the statistics
EchoConsole_InsteadOfClipboard ==
  /\ pc = "echo"
  /\ console' = IF OUTPUT_TO_CONSOLE THEN Append(console, Log("log", "clipboardContent"))
                ELSE console
  /\ pc' = IF OUTPUT_TO_CONSOLE THEN "stats" ELSE "write"
  /\ UNCHANGED <<rerunVars, callVars, argv, EXPANDED_IGNORE, stack, mainVars, walkVars, taskVars, sinkVars, error, endVars>>

(* lines 380-382 *)
EchoConsole ==
  /\ pc = "echo"
  /\ console' = IF OUTPUT_TO_CONSOLE THEN Append(console, Log("log", "clipboardContent"))
                ELSE console
  /\ pc' = "write"
  /\ UNCHANGED <<rerunVars, callVars, argv, EXPANDED_IGNORE, stack, mainVars, walkVars, taskVars, sinkVars, error, endVars>>

(* lines 384-387: clipboardy.write may throw *)
WriteClipboard ==
  /\ pc = "write"
  /\ IF Len(formattedContents) > 0
     THEN \E ok \in BOOLEAN :
            IF ok
            THEN /\ clipboard' = clipboardContent
                 /\ console' = Append(console, Log("log", "Copied Files"))
                 /\ pc' = "stats"
                 /\ UNCHANGED <<stack, error>>
            ELSE Throw([op |-> "clipboard", path |-> <<>>]) /\ UNCHANGED <<clipboard, console>>
     ELSE pc' = "stats" /\ UNCHANGED <<stack, error, clipboard, console>>
  /\ UNCHANGED <<rerunVars, callVars, argv, EXPANDED_IGNORE, mainVars, walkVars, taskVars, clipboardContent, endVars>>

\* the skip records counted instead of the files left out
excludedFilesCount_Skipped == Len(skippedFiles)

\* outputStats line 219
excludedFilesCount == totalMatchedFilesCount - Len(matchedFiles)

\* lines 238-242: the warning names the limit and the number of files left out
MaxFilesWarning(limit, excluded) ==
  [stream |-> "log", msg |-> "Maximum number of files copied", maxFiles |-> limit,
   excluded |-> excluded]

\* outputStats, lines 217-249: the lines it logs
StatsLines ==
  <<IF Len(matchedFiles) = 0 THEN Log("log", "No files found.")
    ELSE Log("log", "files to the clipboard")>>
  \o (IF ignoredFilesCount > 0 \/ ignoredDirectoriesCount > 0
      THEN <<Log("log", "Skipped")>> ELSE <<>>)
  \o (IF DOMAIN fileExtensionCounts # {} THEN <<Log("log", "Matched extension")>> ELSE <<>>)
  \o (IF excludedFilesCount > 0
      THEN <<MaxFilesWarning(MAX_FILES, excludedFilesCount), Log("log", "To further refine")>>
      ELSE <<>>)

(* line 388: outputStats, after which main's promise fulfils *)
OutputStats ==
  /\ pc = "stats"
  /\ console' = console \o StatsLines
  /\ mainPromise' = "fulfilled"
  /\ pc' = "end"
  /\ UNCHANGED <<rerunVars, callVars, argv, EXPANDED_IGNORE, stack, mainVars, walkVars, taskVars, sinkVars, error, exitCode>>

(* lines 389-391: the catch logs the message; main's promise fulfils all the same *)
Catch ==
  /\ pc = "catch"
  /\ console' = Append(console, Log("error", "Error:"))
  /\ mainPromise' = "fulfilled"
  /\ pc' = "end"
  /\ UNCHANGED <<rerunVars, callVars, argv, EXPANDED_IGNORE, stack, mainVars, walkVars, taskVars, sinkVars, error, exitCode>>

(* lines 394-396: the then-callback of main() *)
ThenCallback ==
  /\ pc = "end"
  /\ mainPromise = "fulfilled"
  /\ console' = Append(console, Log("log", "Run the command with --help"))
  /\ pc' = "idle"
  /\ UNCHANGED <<rerunVars, callVars, argv, EXPANDED_IGNORE, stack, mainVars, walkVars, taskVars, sinkVars, error, endVars>>

(* nothing is left to run: node exits, with code 0 as process.exitCode was never set *)
Exit ==
  /\ pc = "idle"
  /\ \A i \in DOMAIN task : task[i] \in {"fulfilled", "rejected"}
  /\ exitCode' = 0
  /\ pc' = "exited"
  /\ UNCHANGED <<rerunVars, callVars, argv, EXPANDED_IGNORE, stack, mainVars, walkVars, taskVars, sinkVars, console, error,
                 mainPromise>>

----------------------------------------------------------------------------

Next ==
  \/ Start
  \/ ScanEnter
  \/ ScanIgnored
  \/ ScanSubdirectory
  \/ ScanFile
  \/ ScanReturn
  \/ Prune
  \/ \E i \in DOMAIN task : TaskReadFile(i)
  \/ \E i \in DOMAIN task : TaskStat(i)
  \/ \E i \in DOMAIN task : TaskFormat(i)
  \/ AwaitAll
  \/ Assemble
  \/ EchoConsole
  \/ WriteClipboard
  \/ OutputStats
  \/ Catch
  \/ ThenCallback
  \/ Exit

Spec == Init /\ [][Next]_vars

(* main up to line 341 only: the walk and the pruning of its result. No later *)
(* step of main changes what these steps have set.                            *)
NextWalk ==
  \/ Start
  \/ ScanEnter
  \/ ScanIgnored
  \/ ScanSubdirectory
  \/ ScanFile
  \/ ScanReturn
  \/ Prune

SpecWalk == Init /\ [][NextWalk]_vars

(* The program is started a second time on the same tree with the same       *)
(* options: every global of lines 20-26 and every local of main starts afresh. *)
Rerun ==
  /\ pc = "await"
  /\ run = 1
  /\ run' = 2
  /\ previousFiles' = allMatchedFiles
  /\ pc' = "start"
  /\ stack' = <<>>
  /\ allMatchedFiles' = <<>>
  /\ files' = <<>>
  /\ totalMatchedFilesCount' = 0
  /\ skippedFiles' = <<>>
  /\ ignoredFilesCount' = 0
  /\ ignoredDirectoriesCount' = 0
  /\ fileExtensionCounts' = <<>>
  /\ task' = <<>>
  /\ formattedContents' = <<>>
  /\ console' = <<>>
  /\ UNCHANGED <<callVars, argv, EXPANDED_IGNORE, settled, rejection, matchedFiles, sinkVars,
                 error, endVars>>

NextTwice ==
  \/ Start
  \/ ScanEnter
  \/ ScanIgnored
  \/ ScanSubdirectory
  \/ ScanFile
  \/ ScanReturn
  \/ Prune
  \/ Rerun

SpecTwice == Init /\ [][NextTwice]_vars

----------------------------------------------------------------------------
(* A function called on its own: main is not running, the options are the    *)
(* defaults of a scan of the working directory.                              *)

Defaults ==
  [maxDepth |-> MaxDepthBound, maxFiles |-> MaxFilesBound, maxFilesize |-> 1,
   ignore |-> <<>>, addIgnore |-> <<>>, extensions |-> <<>>, extensionsIgnore |-> <<>>,
   directory |-> Cwd, omitTree |-> FALSE, projectDescription |-> "",
   outputToConsole |-> FALSE]

(* The event loop runs every continuation that is ready, and every file      *)
(* system or clipboard request completes, with a value or with an error: a   *)
(* step that can be taken is not put off for ever.                           *)
InitLive ==
  /\ \E maxDepth \in 0..MaxDepthBound, maxFiles \in 1..MaxFilesBound,
        ignore \in IgnoreChoices, extensions \in ExtensionChoices,
        directory \in DirectoryChoices :
       argv = [Defaults EXCEPT !.maxDepth = maxDepth,
                               !.maxFiles = maxFiles,
                               !.ignore = ignore,
                               !.extensions = extensions,
                               !.directory = directory]
  /\ Loaded
  /\ pc = "start"
  /\ NoCall

SpecLive == InitLive /\ [][Next]_vars /\ WF_vars(Next)

\* the lists buildAndPrintTree is called with hold at most MaxPaths paths
MaxPaths == 3

\* relative paths of files: shared directories, the same name in two
\* directories, array-index names, a name every object inherits
TreePathChoices ==
  {JoinPath(segments) :
     segments \in {<<n_a_js>>, <<n_src, n_a_js>>, <<n_src, n_lib, n_u_MD>>, <<n_src, n_z_md>>,
                   <<<<"2">>, n_x_js>>, <<<<"1">>>>, <<n_constructor, n_x_js>>}}

InitTree ==
  /\ argv = Defaults
  /\ Loaded
  /\ pc = "call"
  /\ paths \in {list \in UNION {[1..n -> TreePathChoices] : n \in 0..MaxPaths} :
                  \A i, j \in DOMAIN list : list[i] = list[j] => i = j}
  /\ treeString = <<>>
  /\ content = <<>>
  /\ replaced = <<>>
  /\ patternList = <<>>
  /\ expanded = <<>>

CallBuildAndPrintTree ==
  /\ pc = "call"
  /\ treeString' = buildAndPrintTree(paths)
  /\ pc' = "returned"
  /\ UNCHANGED <<rerunVars, paths, content, replaced, patternList, expanded, argv, EXPANDED_IGNORE, stack, mainVars,
                 walkVars, taskVars, sinkVars, console, error, endVars>>

NextTree == CallBuildAndPrintTree

SpecTree == InitTree /\ [][NextTree]_vars

\* the texts removeExcessLineBreaks is called with have at most MaxTextLen
\* characters: line breaks, blanks and a letter
MaxTextLen == 7

TextChars == {NewLine, " ", "a"}

InitText ==
  /\ argv = Defaults
  /\ Loaded
  /\ pc = "call"
  /\ paths = <<>>
  /\ treeString = <<>>
  /\ content \in UNION {[1..n -> TextChars] : n \in 0..MaxTextLen}
  /\ replaced = <<>>
  /\ patternList = <<>>
  /\ expanded = <<>>

CallRemoveExcessLineBreaks ==
  /\ pc = "call"
  /\ replaced' = removeExcessLineBreaks(content)
  /\ pc' = "returned"
  /\ UNCHANGED <<rerunVars, paths, treeString, content, patternList, expanded, argv, EXPANDED_IGNORE, stack, mainVars,
                 walkVars, taskVars, sinkVars, console, error, endVars>>

NextText == CallRemoveExcessLineBreaks

SpecText == InitText /\ [][NextText]_vars

\* the lists expandDirectoryPatterns is called with hold at most MaxPatterns
\* patterns
MaxPatterns == 3

\* raw ignore patterns: directory names with and without the closing "/", a
\* dotted directory name that ends with "/", wildcard patterns with and
\* without a ".", a dotted name, the empty pattern
PatternChoices ==
  {n_node_modules, p_dist_slash, p_a_b_slash, p_star_md, p_star_ib, p_dot_git, <<>>}

InitExpand ==
  /\ argv = Defaults
  /\ Loaded
  /\ pc = "call"
  /\ paths = <<>>
  /\ treeString = <<>>
  /\ content = <<>>
  /\ replaced = <<>>
  /\ patternList \in UNION {[1..n -> PatternChoices] : n \in 0..MaxPatterns}
  /\ expanded = <<>>

CallExpandDirectoryPatterns ==
  /\ pc = "call"
  /\ expanded' = expandDirectoryPatterns(patternList)
  /\ pc' = "returned"
  /\ UNCHANGED <<rerunVars, paths, treeString, content, replaced, patternList, argv,
                 EXPANDED_IGNORE, stack, mainVars, walkVars, taskVars, sinkVars, console,
                 error, endVars>>

NextExpand == CallExpandDirectoryPatterns

SpecExpand == InitExpand /\ [][NextExpand]_vars

----------------------------------------------------------------------------
(* main from line 352 on: Promise.all has fulfilled. The walk before it is    *)
(* replaced by its outcome: the files selected, the order their paths were    *)
(* pushed in, and any number of skip records up to MaxSkipped.                *)

MaxSkipped == 22

RECURSIVE Decimal(_)
Decimal(n) ==
  IF n < 10 THEN <<Digits[n + 1]>>
  ELSE Decimal(n \div 10) \o <<Digits[(n % 10) + 1]>>

SkipReasons == <<"Ignored", "Ignored Directory", "Not allowed (size or binary)">>

\* the i-th record of a walk that skipped the entries s1, s2, ... of the
\* working directory
SkippedEntry(i) == SkipRecord(<<n_w, <<"s">> \o Decimal(i)>>, SkipReasons[(i % 3) + 1])

ReportFiles == <<<<n_w, n_a_js>>, <<n_w, n_src, n_index_js>>>>

InitReport ==
  /\ \E omitTree \in BOOLEAN, description \in {"", "a tool"}, toConsole \in BOOLEAN :
       argv = [Defaults EXCEPT !.omitTree = omitTree,
                               !.projectDescription = description,
                               !.outputToConsole = toConsole]
  /\ EXPANDED_IGNORE = expandIgnorePatterns(IGNORE_FILES, argv.extensionsIgnore, EXTENSIONS)
  /\ pc = "assemble"
  /\ stack = <<>>
  /\ \E n \in 0..Len(ReportFiles) : files = SubSeq(ReportFiles, 1, n)
  /\ allMatchedFiles = files
  /\ totalMatchedFilesCount = Len(files)
  /\ matchedFiles \in {pushed \in [DOMAIN files -> {PathRelative(Cwd, files[i]) : i \in DOMAIN files}] :
                         \A i, j \in DOMAIN pushed : pushed[i] = pushed[j] => i = j}
  /\ \E s \in 0..MaxSkipped : skippedFiles = [i \in 1..s |-> SkippedEntry(i)]
  /\ ignoredFilesCount = Len(SelectSeq(skippedFiles, LAMBDA r : r.reason = "Ignored"))
  /\ ignoredDirectoriesCount
       = Len(SelectSeq(skippedFiles, LAMBDA r : r.reason = "Ignored Directory"))
  /\ fileExtensionCounts = IF files = <<>> THEN <<>> ELSE [e \in {<<"j", "s">>} |-> Len(files)]
  /\ task = [i \in DOMAIN files |-> "fulfilled"]
  /\ formattedContents
       = [i \in DOMAIN files |->
            [formattedContent |-> FormattedContent(files[i]), size |-> Stat(files[i]).size]]
  /\ settled = Len(files)
  /\ rejection = NoError
  /\ clipboardContent = <<>>
  /\ clipboard = <<>>
  /\ console = <<Log("log", "Configuration")>>
  /\ error = NoError
  /\ mainPromise = "pending"
  /\ exitCode = -1
  /\ run = 1
  /\ previousFiles = <<>>
  /\ NoCall

NextReport ==
  \/ Assemble
  \/ EchoConsole
  \/ WriteClipboard
  \/ OutputStats
  \/ Catch
  \/ ThenCallback
  \/ Exit

SpecReport == InitReport /\ [][NextReport]_vars

----------------------------------------------------------------------------
(* What the walk should yield, read off the tree on disk *)

FileSections(text) == SelectSeq(text, LAMBDA sec : sec.section = "File")

IgnoredByRules(p) == isMatch(PathRelative(Cwd, p), EXPANDED_IGNORE)

\* the entries strictly between the scan directory and p
AncestorsBelowRoot(p) ==
  {SubSeq(p, 1, k) : k \in (Len(argv.directory) + 1)..(Len(p) - 1)}

InScope(e) == Len(e.path) > Len(argv.directory) /\ StartsWith(e.path, argv.directory)

\* the walk lists the directory that holds e
Examined(e) ==
  /\ InScope(e)
  /\ Len(e.path) - Len(argv.directory) - 1 <= argv.maxDepth
  /\ \A a \in AncestorsBelowRoot(e.path) : ~IgnoredByRules(a)

BelowIgnored(e) ==
  /\ InScope(e)
  /\ \E a \in AncestorsBelowRoot(e.path) : IgnoredByRules(a)

Eligible(e) ==
  /\ ~e.isDirectory
  /\ ~e.binary
  /\ e.size <= argv.maxFilesize * 1024
  /\ (argv.extensions = <<>> \/ ExtName(e.path) \in Range(argv.extensions))

\* FileSystem lists the tree depth-first, so the order of the walk is its order
WalkOrder ==
  LET kept == SelectSeq(FileSystem,
                        LAMBDA e : Examined(e) /\ ~IgnoredByRules(e.path) /\ Eligible(e))
  IN [i \in DOMAIN kept |-> kept[i].path]

RecordsOf(p) == SelectSeq(skippedFiles, LAMBDA r : r.path = p)

RecordsWith(reason) == SelectSeq(skippedFiles, LAMBDA r : r.reason = reason)

\* every path some scanDirectory call or main holds as selected
SelectedPaths ==
  Range(allMatchedFiles) \cup Range(files)
  \cup UNION {Range(stack[k].files) : k \in DOMAIN stack}

WalkDone == pc \in {"prune", "await", "assemble", "echo", "write", "stats"}

\* main is past line 341: only the clipboard or a task can have failed
Pruned ==
  \/ pc \in {"await", "assemble", "echo", "write", "stats"}
  \/ /\ pc \in {"catch", "end", "idle", "exited"}
     /\ (error = NoError \/ error.op = "clipboard" \/ rejection # NoError)

----------------------------------------------------------------------------
(* Claims *)

\* C1: at every moment, and so after main completes, the files that reach the
\* report (the relative paths in matchedFiles, the formatted blocks of the text)
\* are at most max-files many.
C1_CountBound ==
  /\ Len(matchedFiles) <= MAX_FILES
  /\ Len(FileSections(clipboardContent)) <= MAX_FILES
  /\ Len(FileSections(clipboard)) <= MAX_FILES

C1_Witness ==
  /\ pc = "exited"
  /\ clipboard # <<>>
  /\ totalMatchedFilesCount > MAX_FILES
  /\ Len(matchedFiles) = MAX_FILES

\* C2 as stated: no selected file has a relative path, as computed for matching
\* and output (relative to the working directory), of more than D+1 segments.
C2_CwdRelativeDepthBound ==
  \A f \in SelectedPaths : Len(PathRelative(Cwd, f)) <= MAX_DEPTH + 1

\* C2 amended: relative to the scan directory a selected file has at most D+1
\* segments; the path computed for matching and output, relative to the working
\* directory, has at most D+1 segments more than the scan directory's own.
C2_DepthBound ==
  LET extra == Len(PathRelative(Cwd, argv.directory))
  IN \A f \in SelectedPaths :
       /\ Len(PathRelative(argv.directory, f)) <= MAX_DEPTH + 1
       /\ Len(PathRelative(Cwd, f)) <= MAX_DEPTH + 1 + extra

C2_Witness ==
  /\ pc = "await"
  /\ argv.directory # Cwd
  /\ MAX_DEPTH >= 1
  /\ \E i \in DOMAIN files :
       Len(PathRelative(Cwd, files[i]))
         = MAX_DEPTH + 1 + Len(PathRelative(Cwd, argv.directory))
  /\ \E e \in Range(FileSystem) : InScope(e) /\ Eligible(e) /\ ~Examined(e)

BareExtension(ext) == IF StartsWith(ext, <<".">>) THEN SliceFrom(ext, 1) ELSE ext

RECURSIVE StripAnyDepth(_)
StripAnyDepth(rule) ==
  IF StartsWith(rule, AnyDepth) THEN StripAnyDepth(SliceFrom(rule, 3)) ELSE rule

\* C4: for an extension that is both in the allow-list and in the
\* extension-ignore list, the expanded ignore list holds no bare
\* extension-wildcard rule (any-depth prefixes, then "*.<ext>"), so after the
\* walk no file is recorded as ignored because of its allowed extension.
C4_InclusionOverridesExtensionIgnore ==
  WalkDone =>
    \A i \in DOMAIN argv.extensionsIgnore :
      LET ext == BareExtension(argv.extensionsIgnore[i])
          others == expandDirectoryPatterns(filterIncludedExtensions(IGNORE_FILES, EXTENSIONS))
      IN ext \in EXTENSIONS =>
           /\ \A j \in DOMAIN EXPANDED_IGNORE :
                StripAnyDepth(EXPANDED_IGNORE[j]) # <<"*", ".">> \o ext
           /\ \A r \in Range(skippedFiles) :
                (r.reason = "Ignored" /\ ExtName(r.path) = ext)
                  => isMatch(PathRelative(Cwd, r.path), others)

\* C5: once main has pruned, with T the number of files the walk returned (the
\* eligible files in walk order) and N = max-files, the selected files are the
\* first min(T, N) of them and the records 'Exceeded max files limit' are
\* exactly one for each later file, in order: max(0, T - N) of them.
C5_FirstNSelected ==
  LET T == Len(allMatchedFiles)
      N == MAX_FILES
      exceeded == RecordsWith("Exceeded max files limit")
  IN IF Pruned
     THEN /\ allMatchedFiles = WalkOrder
          /\ files = SubSeq(allMatchedFiles, 1, Min(T, N))
          /\ Len(exceeded) = Max(0, T - N)
          /\ \A i \in DOMAIN exceeded : exceeded[i].path = allMatchedFiles[N + i]
     ELSE exceeded = <<>> /\ files = <<>>

C5_Witness ==
  /\ pc = "await"
  /\ Len(allMatchedFiles) >= MAX_FILES + 2
  /\ MAX_FILES >= 2
  /\ Len(RecordsWith("Exceeded max files limit")) >= 2

\* C6: an entry of the walk that matches the ignore list gets exactly one skip
\* record, 'Ignored Directory' for a directory and 'Ignored' otherwise; it is
\* never descended into, and nothing beneath it is selected or recorded. With
\* only node_modules ignored, src/index.js is selected and node_modules/x.js
\* is not.
C6_IgnoredRecordedOnce ==
  LET ignored == {e.path : e \in {x \in Range(FileSystem) : IgnoredByRules(x.path)}}
      below(e) == InScope(e) /\ AncestorsBelowRoot(e.path) \cap ignored # {}
      examined(e) == /\ InScope(e)
                     /\ Len(e.path) - Len(argv.directory) - 1 <= argv.maxDepth
                     /\ AncestorsBelowRoot(e.path) \cap ignored = {}
  IN /\ \A e \in Range(FileSystem) :
          /\ Len(RecordsOf(e.path)) <= 1
          /\ (InScope(e) /\ e.path \in ignored) =>
               /\ \A r \in Range(RecordsOf(e.path)) :
                    r.reason = IF e.isDirectory THEN "Ignored Directory" ELSE "Ignored"
               /\ \A k \in DOMAIN stack : stack[k].dir # e.path
               /\ e.path \notin SelectedPaths
          /\ below(e) =>
               /\ RecordsOf(e.path) = <<>>
               /\ e.path \notin SelectedPaths
               /\ \A k \in DOMAIN stack : stack[k].dir # e.path
          /\ (examined(e) /\ e.path \in ignored /\ (WalkDone \/ Pruned)) =>
               Len(RecordsOf(e.path)) = 1
     /\ (/\ WalkDone
         /\ argv.directory = Cwd /\ MAX_DEPTH >= 1
         /\ IGNORE_FILES = <<n_node_modules>>
         /\ argv.extensions = <<>> /\ argv.extensionsIgnore = <<>>) =>
          /\ <<n_w, n_src, n_index_js>> \in Range(allMatchedFiles)
          /\ <<n_w, n_node_modules, n_x_js>> \notin Range(allMatchedFiles)
          /\ RecordsOf(<<n_w, n_node_modules>>)
               = <<SkipRecord(<<n_w, n_node_modules>>, "Ignored Directory")>>

C6_Witness ==
  /\ pc = "await"
  /\ ignoredDirectoriesCount >= 1
  /\ ignoredFilesCount >= 1
  /\ files # <<>>
  /\ \E e \in Range(FileSystem) : BelowIgnored(e) /\ ~IgnoredByRules(e.path) /\ Eligible(e)

\* C7: a failing readdir, stat or readFile makes the run fail only when it is
\* on the scan root itself; on any other entry the run goes on.
C7_OnlyRootFailureFails ==
  error.op \in {"readdir", "stat", "readFile"} => error.path = argv.directory

\* C8: the clipboard is written only after every selected file was formatted
\* and the text assembled: once any scan or formatting step has failed, the
\* clipboard stays unwritten, and what is written is the assembled text with
\* one finished block per selected file.
C8_NoWriteAfterFailure ==
  clipboard # <<>> =>
    /\ error = NoError
    /\ rejection = NoError
    /\ \A i \in DOMAIN task : task[i] = "fulfilled"
    /\ clipboard = clipboardContent
    /\ Len(FileSections(clipboard)) = Len(files)
    /\ \A i \in DOMAIN formattedContents : formattedContents[i] # Pending

C8_Witness ==
  /\ pc = "exited"
  /\ rejection # NoError
  /\ \E i \in DOMAIN task : task[i] = "fulfilled"
  /\ clipboard = <<>>

\* C9: a run that caught a failure ends in an outcome that differs from a
\* successful run's: a non-zero exit code or a rejected main promise.
C9_FailureSignalled ==
  (pc = "exited" /\ error # NoError) => (exitCode # 0 \/ mainPromise = "rejected")

\* C10: in every interleaving, the values Promise.all has collected sit at the
\* index of their file, and the blocks of the assembled text are those of the
\* selected files in selection order.
C10_BlocksInSelectionOrder ==
  /\ \A i \in DOMAIN task :
       task[i] = "fulfilled" =>
         formattedContents[i].formattedContent.relativePath = PathRelative(Cwd, files[i])
  /\ \A text \in {clipboardContent, clipboard} :
       text # <<>> =>
         LET blocks == FileSections(text)
         IN /\ Len(blocks) = Len(files)
            /\ \A i \in DOMAIN files : blocks[i].items = <<PathRelative(Cwd, files[i])>>

C10_Witness ==
  /\ clipboard # <<>>
  /\ Len(files) >= 2
  /\ matchedFiles # <<>>
  /\ matchedFiles[1] = PathRelative(Cwd, files[2])

\* C11: in every interleaving of the per-file formatting tasks, the list main
\* passes to buildAndPrintTree (matchedFiles, line 366) holds the relative paths
\* of the selected files in selection order, and so does the tree section of
\* the assembled text.
C11_TreeFromSelectionOrder ==
  LET selected == [i \in DOMAIN files |-> PathRelative(Cwd, files[i])]
  IN /\ pc \in {"assemble", "echo", "write", "stats"} => matchedFiles = selected
     /\ \A i \in DOMAIN clipboardContent :
          clipboardContent[i].section = "Tree Structure"
            => clipboardContent[i].items = selected

TreePrefixes(pathList) ==
  UNION {{SubSeq(Split(pathList[i], "/"), 1, k) : k \in 1..Len(Split(pathList[i], "/"))} :
           i \in DOMAIN pathList}

LineDepth(i) == Len(treeString[i].prefix)

\* the nearest earlier line one level up, 0 for a line of the top level
LineParent(i) ==
  LET above == {j \in 1..(i - 1) : LineDepth(j) = LineDepth(i) - 1}
  IN IF above = {} THEN 0 ELSE CHOOSE j \in above : \A k \in above : k <= j

RECURSIVE LineNode(_)
LineNode(i) == IF i = 0 THEN <<>> ELSE Append(LineNode(LineParent(i)), treeString[i].key)

LineIsLast(i) ==
  ~\E j \in (i + 1)..Len(treeString) :
      LineDepth(j) = LineDepth(i) /\ LineParent(j) = LineParent(i)

\* C13: for a list of relative paths, the rendering has exactly one line for
\* each directory and file of the list (each distinct run of leading segments),
\* so one chain from the top level to the file for every path; in each group of
\* siblings the last one, and only it, has the corner connector and the others
\* the tee; a line's prefix is its parent's prefix followed by the blank
\* indentation when the parent is a last sibling and by the bar otherwise.
C13_OneLinePerNode ==
  pc = "returned" =>
    LET n == Len(treeString)
    IN /\ \A i, j \in 1..n : LineNode(i) = LineNode(j) => i = j
       /\ {LineNode(i) : i \in 1..n} = TreePrefixes(paths)
       /\ \A i \in 1..n :
            /\ treeString[i].connector
                 = IF LineIsLast(i) THEN CornerConnector ELSE TeeConnector
            /\ LineDepth(i) > 0 =>
                 /\ LineParent(i) > 0
                 /\ treeString[i].prefix
                      = Append(treeString[LineParent(i)].prefix,
                               IF LineIsLast(LineParent(i)) THEN BlankIndent ELSE BarIndent)

NotAllowedRecord(p) == SkipRecord(p, "Not allowed (size or binary)")

\* C14: a file the walk examines and the ignore list lets through is accepted
\* if and only if it is text, its size is at most the byte ceiling, and the
\* allow-list is empty or holds its extension spelled with the same case;
\* otherwise it is recorded as not allowed. src/lib/u.MD, of exactly the
\* ceiling, is accepted; src/big.txt, one byte over, never is.
C14_AcceptedIff ==
  /\ \A e \in Range(FileSystem) :
       ~e.isDirectory =>
         /\ e.path \in SelectedPaths => Eligible(e)
         /\ NotAllowedRecord(e.path) \in Range(skippedFiles) => ~Eligible(e)
         /\ (WalkDone /\ Examined(e) /\ ~IgnoredByRules(e.path)) =>
              /\ e.path \in Range(allMatchedFiles) <=> Eligible(e)
              /\ NotAllowedRecord(e.path) \in Range(skippedFiles) <=> ~Eligible(e)
  /\ <<n_w, n_src, n_big_txt>> \notin SelectedPaths
  /\ LET atCeiling == Stat(<<n_w, n_src, n_lib, n_u_MD>>)
     IN (/\ WalkDone
         /\ argv.extensions = <<>>
         /\ Examined(atCeiling)
         /\ ~IgnoredByRules(atCeiling.path)) =>
          /\ atCeiling.size = MAX_FILE_SIZE
          /\ atCeiling.path \in Range(allMatchedFiles)

C14_Witness ==
  /\ pc = "await"
  /\ argv.extensions = <<e_md>>
  /\ <<n_w, n_src, n_R_md>> \in Range(allMatchedFiles)
  /\ <<n_w, n_src, n_lib, n_deep, n_z_md>> \in Range(allMatchedFiles)
  /\ NotAllowedRecord(<<n_w, n_src, n_big_txt>>) \in Range(skippedFiles)
  /\ NotAllowedRecord(<<n_w, n_src, n_img_png>>) \in Range(skippedFiles)
  /\ NotAllowedRecord(<<n_w, n_src, n_lib, n_u_MD>>) \in Range(skippedFiles)

SectionRank(name) ==
  CASE name = "Project Description" -> 1
    [] name = "Project Summary" -> 2
    [] name = "Tree Structure" -> 3
    [] name = "Omitted Files" -> 4
    [] name = "Files" -> 5
    [] name = "File" -> 6

SectionNames(text) == {text[i].section : i \in DOMAIN text}

\* C15: in the assembled text and in what is copied, the sections present
\* appear in the order project description, project summary, tree, omitted
\* files, 'Files' heading, formatted blocks, and none but the blocks repeats.
C15_SectionsInOrder ==
  \A text \in {clipboardContent, clipboard} :
    \A i, j \in DOMAIN text :
      i < j =>
        /\ SectionRank(text[i].section) <= SectionRank(text[j].section)
        /\ SectionRank(text[i].section) = SectionRank(text[j].section)
             => text[i].section = "File"

C15_Witness ==
  /\ pc = "exited"
  /\ SectionNames(clipboard)
       = {"Project Description", "Project Summary", "Tree Structure", "Omitted Files",
          "Files", "File"}
  /\ Len(FileSections(clipboard)) = 2

\* the line breaks of text from position i on, up to the first other character
RECURSIVE RunLength(_, _)
RunLength(text, i) ==
  IF i > Len(text) \/ text[i] # NewLine THEN 0 ELSE 1 + RunLength(text, i + 1)

\* every run of three or more line breaks cut down to two, nothing else touched
RECURSIVE CollapseRuns(_, _)
CollapseRuns(text, i) ==
  IF i > Len(text) THEN <<>>
  ELSE IF text[i] = NewLine
       THEN [k \in 1..Min(RunLength(text, i), 2) |-> NewLine]
            \o CollapseRuns(text, i + RunLength(text, i))
       ELSE <<text[i]>> \o CollapseRuns(text, i + 1)

OmittedSections(text) == SelectSeq(text, LAMBDA sec : sec.section = "Omitted Files")

\* C17: with S skip records, the assembled text has no omitted-files listing
\* when S = 0; otherwise one listing whose lines are the first min(S, 20)
\* records in recording order, each with its relative path and reason, followed
\* by a count line if and only if S > 20, and that line states S - 20.
C17_OmittedListing ==
  clipboardContent # <<>> =>
    LET S == Len(skippedFiles)
        listing == OmittedSections(clipboardContent)
    IN IF S = 0 THEN listing = <<>>
       ELSE /\ Len(listing) = 1
            /\ LET lines == listing[1].items
                   shown == SelectSeq(lines, LAMBDA l : l.more = 0)
                   counts == SelectSeq(lines, LAMBDA l : l.more # 0)
               IN /\ Len(shown) = Min(S, 20)
                  /\ \A i \in DOMAIN shown :
                       /\ shown[i].path = PathRelative(Cwd, skippedFiles[i].path)
                       /\ shown[i].reason = skippedFiles[i].reason
                       /\ lines[i] = shown[i]
                  /\ Len(counts) = (IF S > 20 THEN 1 ELSE 0)
                  /\ \A i \in DOMAIN counts : counts[i].more = S - 20

C17_Witness ==
  /\ pc = "exited"
  /\ Len(skippedFiles) = 22
  /\ \E i \in DOMAIN clipboard :
       /\ clipboard[i].section = "Omitted Files"
       /\ Len(clipboard[i].items) = 21
       /\ clipboard[i].items[21].more = 2

MaxFilesWarnings ==
  SelectSeq(console, LAMBDA line : line.msg = "Maximum number of files copied")

\* C18: a run that reaches its statistics logs the max-files warning if and
\* only if the eligible files of the complete walk outnumber max-files; the
\* warning names the limit and, as the number left out, that total minus the
\* number of files copied. The walk does not stop at the limit: the total main
\* keeps is the number of all eligible files the walk reaches. Before the
\* statistics no warning is logged.
C18_WarningIffOverLimit ==
  IF pc \in {"end", "idle", "exited"} /\ error = NoError
  THEN LET total == Len(WalkOrder)
       IN /\ totalMatchedFilesCount = total
          /\ Len(MaxFilesWarnings) = (IF total > MAX_FILES THEN 1 ELSE 0)
          /\ \A i \in DOMAIN MaxFilesWarnings :
               /\ MaxFilesWarnings[i].excluded = total - Len(FileSections(clipboard))
               /\ MaxFilesWarnings[i].maxFiles = MAX_FILES
  ELSE MaxFilesWarnings = <<>>

C18_Witness ==
  /\ pc = "exited"
  /\ MAX_FILES = 2
  /\ Len(allMatchedFiles) = 4
  /\ Len(FileSections(clipboard)) = 2
  /\ \E i \in DOMAIN console : console[i] = MaxFilesWarning(2, 2)

Fulfilled == {i \in DOMAIN task : task[i] = "fulfilled"}

BlockOf(i) == formattedContents[i].formattedContent.codeBlock

C20_EmptySectionsOmitted ==
  clipboardContent # <<>> =>
    LET names == SectionNames(clipboardContent)
    IN /\ "Project Description" \in names <=> PROJECT_DESCRIPTION # ""
       /\ "Tree Structure" \in names <=> (~OMIT_TREE /\ matchedFiles # <<>>)
       /\ "Omitted Files" \in names <=> skippedFiles # <<>>
       /\ files = <<>> => ("Project Summary" \notin names /\ "Files" \notin names)

\* C21: the classifier tests the size first and stops there: the content of a
\* file larger than the byte ceiling is never read, so no read of such a file
\* can be what fails.
C21_OversizeNeverRead ==
  \A e \in Range(FileSystem) :
    (~e.isDirectory /\ e.size > MAX_FILE_SIZE) =>
      error # [op |-> "readFile", path |-> e.path]

\* the claim's test of a pattern, character by character
IsDirectoryPattern(pattern) ==
  \/ (pattern # <<>> /\ pattern[Len(pattern)] = "/")
  \/ /\ \A i \in DOMAIN pattern : pattern[i] # "."
     /\ (pattern = <<>> \/ pattern[1] # "*")

\* where the rules of the i-th pattern start in the expanded list
RuleStart(list, i) ==
  i + Cardinality({j \in 1..(i - 1) : IsDirectoryPattern(list[j])})

\* C22: expandDirectoryPatterns turns each raw pattern P that ends with "/" or
\* holds no "." and does not start with "*" into the two rules **/P/** and
\* **/P, any other P into the one rule **/P, and returns these in input order
\* with nothing else.
C22_ExpansionExact ==
  pc = "returned" =>
    /\ Len(expanded) = RuleStart(patternList, Len(patternList) + 1) - 1
    /\ \A i \in DOMAIN patternList :
         LET P == patternList[i]
             at == RuleStart(patternList, i)
         IN IF IsDirectoryPattern(P)
            THEN /\ expanded[at] = <<"*", "*", "/">> \o P \o <<"/", "*", "*">>
                 /\ expanded[at + 1] = <<"*", "*", "/">> \o P
            ELSE expanded[at] = <<"*", "*", "/">> \o P

C22_Witness ==
  /\ pc = "returned"
  /\ patternList = <<n_node_modules, p_star_md, p_a_b_slash>>
  /\ expanded = << <<"*", "*", "/">> \o n_node_modules \o <<"/", "*", "*">>,
                   <<"*", "*", "/">> \o n_node_modules,
                   <<"*", "*", "/", "*", ".", "m", "d">>,
                   <<"*", "*", "/", "a", ".", "b", "/", "/", "*", "*">>,
                   <<"*", "*", "/", "a", ".", "b", "/">> >>

\* the depth scanDirectory is called with for the directory d
DirectoryDepth(d) == Len(d) - Len(argv.directory)

\* the directory that holds the entry e
ParentOf(e) == SubSeq(e.path, 1, Len(e.path) - 1)

\* the walk comes to the directory that holds e: nothing above e is ignored
Reached(e) == InScope(e) /\ \A a \in AncestorsBelowRoot(e.path) : ~IgnoredByRules(a)

\* C23: the depth limit bounds the recursion, not the enumeration. A call at
\* depth max-depth + 1 returns without listing anything: no entry of such a
\* directory is selected or recorded. A directory at depth d <= max-depth that
\* the walk comes to is listed in full: once the walk is over each of its
\* entries is recorded as ignored, or is a file that is selected when eligible
\* and recorded as not allowed otherwise; this includes d = max-depth.
C23_DepthBoundsRecursion ==
  /\ \A k \in DOMAIN stack :
       /\ stack[k].depth = DirectoryDepth(stack[k].dir)
       /\ stack[k].depth <= MAX_DEPTH + 1
       /\ stack[k].listed => stack[k].depth <= MAX_DEPTH
  /\ \A e \in Range(FileSystem) :
       (InScope(e) /\ DirectoryDepth(ParentOf(e)) > MAX_DEPTH) =>
         /\ e.path \notin SelectedPaths
         /\ RecordsOf(e.path) = <<>>
  /\ WalkDone =>
       \A e \in Range(FileSystem) :
         (Reached(e) /\ DirectoryDepth(ParentOf(e)) <= MAX_DEPTH) =>
           IF IgnoredByRules(e.path)
           THEN Len(RecordsOf(e.path)) = 1
           ELSE \/ e.isDirectory
                \/ (Eligible(e) /\ e.path \in Range(allMatchedFiles))
                \/ (~Eligible(e) /\ NotAllowedRecord(e.path) \in Range(skippedFiles))

C23_Witness ==
  /\ pc = "await"
  /\ argv.directory = Cwd
  /\ MAX_DEPTH = 2
  /\ <<n_w, n_src, n_lib, n_u_MD>> \in Range(allMatchedFiles)
  /\ DirectoryDepth(<<n_w, n_src, n_lib>>) = MAX_DEPTH
  /\ DirectoryDepth(<<n_w, n_src, n_lib, n_deep>>) = MAX_DEPTH + 1
  /\ Reached(Stat(<<n_w, n_src, n_lib, n_deep, n_z_md>>))
  /\ <<n_w, n_src, n_lib, n_deep, n_z_md>> \notin Range(allMatchedFiles)
  /\ RecordsOf(<<n_w, n_src, n_lib, n_deep, n_z_md>>) = <<>>

\* the active calls form one path down from the scan directory: the k-th call
\* is at depth k - 1, each call below the first is for the entry its caller's
\* loop is at, and no path is selected or recorded twice
WalkShape ==
  /\ Len(stack) <= MAX_DEPTH + 2
  /\ stack # <<>> => stack[1].dir = argv.directory
  /\ \A k \in DOMAIN stack :
       /\ stack[k].depth = k - 1
       /\ stack[k].depth <= MAX_DEPTH + 1
       /\ \A i, j \in DOMAIN stack[k].files :
            stack[k].files[i] = stack[k].files[j] => i = j
       /\ k > 1 =>
            LET caller == stack[k - 1]
            IN /\ caller.listed
               /\ caller.index \in DOMAIN caller.entries
               /\ caller.entries[caller.index].isDirectory
               /\ stack[k].dir = PathJoin(caller.dir, caller.entries[caller.index].name)
  /\ \A i, j \in DOMAIN allMatchedFiles : allMatchedFiles[i] = allMatchedFiles[j] => i = j
  /\ pc = "scan" =>
       \A i, j \in DOMAIN skippedFiles : skippedFiles[i].path = skippedFiles[j].path => i = j

\* a step of the walk never goes back: a loop's position does not decrease,
\* and the return of a call moves its caller's loop on to the next entry,
\* so no entry is descended into a second time
WalkAdvances ==
  /\ \A k \in DOMAIN stack \cap DOMAIN stack' :
       /\ stack'[k].dir = stack[k].dir
       /\ stack'[k].index >= stack[k].index
       /\ stack[k].listed => (stack'[k].listed /\ stack'[k].entries = stack[k].entries)
  /\ (pc' = "scan" /\ Len(stack') < Len(stack)) =>
       /\ Len(stack') = Len(stack) - 1
       /\ stack'[Len(stack')].index = stack[Len(stack')].index + 1

\* main is over when its promise has fulfilled; the last thing it logged is
\* the statistics or the error
MainEnded ==
  pc = "end" =>
    /\ mainPromise = "fulfilled"
    /\ stack = <<>>
    /\ IF error = NoError
       THEN console[Len(console) - Len(StatsLines) + 1] \in
              {Log("log", "No files found."), Log("log", "files to the clipboard")}
       ELSE console[Len(console)] = Log("error", "Error:")

\* C24: every run terminates. The walk goes down one path at a time, never
\* deeper than max-depth + 1, never back to an entry it has left, so it comes
\* to each directory at most once; and in every execution main reaches its
\* end, after the statistics or after the error log.
C24_Terminates ==
  /\ [](WalkShape /\ MainEnded)
  /\ [][WalkAdvances]_vars
  /\ <>(pc = "end")

C24_Witness ==
  /\ pc = "end"
  /\ error = NoError
  /\ MAX_DEPTH = 2
  /\ argv.directory = <<n_w, n_src>>
  /\ <<n_w, n_src, n_lib, n_deep, n_z_md>> \in Range(allMatchedFiles)
  /\ console[Len(console)] # Log("error", "Error:")

\* the outcomes the file at path p is in, once main has pruned the list
OutcomesOf(p) ==
  (IF p \in Range(files) THEN {"selected"} ELSE {})
  \cup {r.reason : r \in {s \in Range(skippedFiles) : s.path = p}}

\* C25: once the walk and the pruning are over, every file the walk examined
\* is in exactly one outcome: selected, or one skip record whose reason is
\* 'Ignored', 'Not allowed (size or binary)' or 'Exceeded max files limit'.
C25_ExactlyOneOutcome ==
  pc = "await" =>
    \A e \in Range(FileSystem) :
      (~e.isDirectory /\ Examined(e)) =>
        /\ Cardinality(OutcomesOf(e.path)) = 1
        /\ OutcomesOf(e.path) \subseteq
             {"selected", "Ignored", "Not allowed (size or binary)",
              "Exceeded max files limit"}
        /\ Len(RecordsOf(e.path)) <= 1
        /\ Len(SelectSeq(files, LAMBDA f : f = e.path)) <= 1

C25_Witness ==
  /\ pc = "await"
  /\ argv.directory = <<n_w, n_src>>
  /\ OutcomesOf(<<n_w, n_src, n_index_js>>) = {"selected"}
  /\ OutcomesOf(<<n_w, n_src, n_R_md>>) = {"Ignored"}
  /\ OutcomesOf(<<n_w, n_src, n_big_txt>>) = {"Not allowed (size or binary)"}
  /\ OutcomesOf(<<n_w, n_src, n_lib, n_u_MD>>) = {"Exceeded max files limit"}

\* three line breaks in a row somewhere in the text
HasTripleLineBreak(text) ==
  \E i \in 1..(Len(text) - 2) :
    text[i] = NewLine /\ text[i + 1] = NewLine /\ text[i + 2] = NewLine

\* three line breaks with nothing but whitespace between the first and the
\* last: two or more blank lines in a row, a line of blanks counting as blank
HasBlankLines(text) ==
  \E i, j, k \in DOMAIN text :
    /\ i < j /\ j < k
    /\ text[i] = NewLine /\ text[j] = NewLine /\ text[k] = NewLine
    /\ \A m \in i..k : text[m] \in Whitespace

Visible(text) == SelectSeq(text, LAMBDA c : c \notin Whitespace)

\* C26 as stated: a text without three line breaks in a row is returned
\* unchanged, lines made of blanks included.
C26_UnchangedWithoutTripleLineBreak ==
  (pc = "returned" /\ ~HasTripleLineBreak(content)) => replaced = content

\* C26, amended: a text is returned unchanged when it has no three line breaks
\* separated by whitespace only (a single line of blanks stays as it is); any
\* other text loses whitespace only, its other characters stay in order.
C26_UnchangedWithoutBlankLines ==
  pc = "returned" =>
    /\ ~HasBlankLines(content) => replaced = content
    /\ HasBlankLines(content) => Len(replaced) < Len(content)
    /\ Visible(replaced) = Visible(content)

C26_Witness ==
  /\ pc = "returned"
  /\ content = <<"a", NewLine, " ", " ", NewLine, "a", NewLine>>
  /\ ~HasBlankLines(content)
  /\ replaced = content

\* the two counters agree with the records
CountersMatchRecords ==
  /\ ignoredFilesCount = Len(RecordsWith("Ignored"))
  /\ ignoredDirectoriesCount = Len(RecordsWith("Ignored Directory"))

\* a step leaves the records it finds where they are and as they are
RecordsAppendOnly ==
  /\ Len(skippedFiles') >= Len(skippedFiles)
  /\ SubSeq(skippedFiles', 1, Len(skippedFiles)) = skippedFiles

\* C27: in every state ignoredFilesCount is the number of skip records with
\* reason 'Ignored' and ignoredDirectoriesCount the number with reason
\* 'Ignored Directory'; and the list of skip records only grows at its end.
C27_CountersAndAppendOnly ==
  /\ []CountersMatchRecords
  /\ [][RecordsAppendOnly]_vars

C27_Witness ==
  /\ pc = "await"
  /\ ignoredFilesCount = 2
  /\ ignoredDirectoriesCount = 1
  /\ Len(RecordsWith("Not allowed (size or binary)")) > 0
  /\ Len(RecordsWith("Exceeded max files limit")) > 0
  /\ Len(skippedFiles) > 4

RECURSIVE SumOver(_, _)
SumOver(counts, keys) ==
  IF keys = {} THEN 0
  ELSE LET k == CHOOSE any \in keys : TRUE
       IN counts[k] + SumOver(counts, keys \ {k})

\* the sum of the per-extension counters
CountedFiles == SumOver(fileExtensionCounts, DOMAIN fileExtensionCounts)

\* the files the active calls and main hold as accepted, each call's own
AcceptedSoFar ==
  IF pc = "scan" THEN SumOver([k \in DOMAIN stack |-> Len(stack[k].files)], DOMAIN stack)
  ELSE Len(allMatchedFiles)

\* the counters stand for the files accepted: during the walk for those
\* accepted so far, afterwards for the whole list before truncation, each
\* extension (spelled as in the file name) with the number of its files
CountersMatchAccepted ==
  /\ pc = "scan" => CountedFiles = AcceptedSoFar
  /\ Pruned =>
       /\ CountedFiles = totalMatchedFilesCount
       /\ CountedFiles = Len(allMatchedFiles)
       /\ \A ext \in DOMAIN fileExtensionCounts :
            fileExtensionCounts[ext]
              = Len(SelectSeq(allMatchedFiles, LAMBDA f : ExtName(f) = ext))
       /\ CountedFiles > Len(files) <=> Len(allMatchedFiles) > MAX_FILES
  /\ (pc \in {"stats", "end", "idle", "exited"} /\ error = NoError) =>
       (CountedFiles > Len(matchedFiles) <=> Len(allMatchedFiles) > MAX_FILES)

\* a step never lowers a counter or drops one, and raises their sum by at most 1
CountersNeverDecrease ==
  /\ \A ext \in DOMAIN fileExtensionCounts :
       /\ ext \in DOMAIN fileExtensionCounts'
       /\ fileExtensionCounts'[ext] >= fileExtensionCounts[ext]
  /\ SumOver(fileExtensionCounts', DOMAIN fileExtensionCounts') \in
       {CountedFiles, CountedFiles + 1}

\* C28: the per-extension counters go up by one for each file the walk accepts
\* and never down; after the run their sum is the number of eligible files
\* before truncation (totalMatchedFilesCount), and it is larger than the number
\* of files copied exactly when the list was truncated.
C28_CountersCountAccepted ==
  /\ []CountersMatchAccepted
  /\ [][CountersNeverDecrease]_vars

C28_Witness ==
  /\ pc = "end"
  /\ error = NoError
  /\ clipboard # <<>>
  /\ CountedFiles = 3
  /\ totalMatchedFilesCount = 3
  /\ Len(matchedFiles) = 2
  /\ Cardinality(DOMAIN fileExtensionCounts) = 2

\* main has built the text: Promise.all fulfilled and line 378 was reached
Assembled == clipboardContent # <<>>

Echoed == Log("log", "clipboardContent") \in Range(console)

\* main is past the clipboard step of lines 384-387
PastWrite == pc \in {"stats", "end", "idle", "exited"} \/ (pc = "catch" /\ error.op = "clipboard")

C29_WitnessNoFile ==
  /\ pc = "exited"
  /\ OUTPUT_TO_CONSOLE
  /\ Echoed
  /\ Assembled
  /\ files = <<>>
  /\ clipboard = <<>>

\* how many times the relative path p is in matchedFiles
Pushed(p) == Len(SelectSeq(matchedFiles, LAMBDA m : m = p))

\* every task has fulfilled and main has gone on: no step of the formatting
\* failed
FormattedWithoutError ==
  /\ pc \in {"assemble", "echo", "write", "stats", "end", "idle", "exited"}
  /\ rejection = NoError
  /\ (error = NoError \/ error.op = "clipboard")
  /\ Pruned

\* C30: whatever the order in which the formatting tasks take their steps,
\* matchedFiles never holds a path twice nor a path that is not a selected
\* file's; and when they all complete without error it holds the relative path
\* of each selected file exactly once, so it is as long as the list of
\* formatted blocks and totalMatchedFilesCount - matchedFiles.length is not
\* negative.
C30_MatchedFilesExactlyOnce ==
  /\ \A k \in DOMAIN matchedFiles :
       /\ Pushed(matchedFiles[k]) = 1
       /\ \E i \in DOMAIN files :
            /\ matchedFiles[k] = PathRelative(Cwd, files[i])
            /\ task[i] \in {"format", "fulfilled", "rejected"}
  /\ FormattedWithoutError =>
       /\ \A i \in DOMAIN files : Pushed(PathRelative(Cwd, files[i])) = 1
       /\ Len(matchedFiles) = Len(files)
       /\ Len(matchedFiles) = Len(formattedContents)
       /\ \A i \in DOMAIN formattedContents : formattedContents[i] # Pending
       /\ excludedFilesCount >= 0
       /\ excludedFilesCount = totalMatchedFilesCount - Len(files)

C30_Witness ==
  /\ pc = "stats"
  /\ error = NoError
  /\ Len(files) = 2
  /\ matchedFiles = <<PathRelative(Cwd, files[2]), PathRelative(Cwd, files[1])>>
  /\ excludedFilesCount = 1

====
